---- MODULE Spec2Model ----
(***************************************************************************)
(* A model of minpy's gradient tape (src/minpy/tape.py): the Tape class    *)
(* with its two mappings, the reverse traversal of get_gradient, and the   *)
(* tape() recording scope with the class-level global_tape reference.      *)
(*                                                                         *)
(* Values are the integers 1..NumValues.  A forward pass creates the       *)
(* result of an operation after its inputs, so every recorded operation    *)
(* has result leaves with a larger number than its owner leaves: the       *)
(* recorded graphs are exactly the acyclic ones, topologically numbered.   *)
(*                                                                         *)
(* An array is abstracted to (kind, shape, fill): its backend, its shape   *)
(* and the one number all its elements hold.  A grad_func is linear: it    *)
(* multiplies the gradient of its result by fixed local derivatives.       *)
(***************************************************************************)
EXTENDS Integers, Sequences, FiniteSets, TLC

\* ------------------------------------------------------------------ bounds
NumValues == 3
MaxRecords == 2
NumNodes == 4
MaxEdges == 4
MaxTapes == 3

Values == 1..NumValues

\* ------------------------------------------------- owner / result structures
\* A Value, the None placeholder, or a (nested) sequence of them; the isinstance
\* tests of the source read the tag t.
V(x) == [t |-> "V", v |-> x, s |-> <<>>]
None == [t |-> "N", v |-> 0, s |-> <<>>]
L(seq) == [t |-> "S", v |-> 0, s |-> seq]

\* The key under which a mapping would hold the None object.
NoneKey == 0

\* array.Number / has_type(ArrayType.MXNET) / shape of a Value.
IsNumber(x) == x % 3 = 0
IsMxnet(x) == x % 3 = 2
Shape(x) == IF IsNumber(x) THEN <<>> ELSE <<x>>

\* A variant that makes a numpy zero for every array.
ZeroGradient_numpy(x) ==
    IF IsNumber(x) THEN [kind |-> "number", shape |-> <<>>, fill |-> 0]
    ELSE [kind |-> "numpy", shape |-> Shape(x), fill |-> 0]

\* array.Value.wrap(0.0), wrap(mxnet.nd.zeros(shape)), wrap(numpy.zeros(shape)).
ZeroGradient(x) ==
    IF IsNumber(x) THEN [kind |-> "number", shape |-> <<>>, fill |-> 0]
    ELSE IF IsMxnet(x) THEN [kind |-> "mxnet", shape |-> Shape(x), fill |-> 0]
    ELSE [kind |-> "numpy", shape |-> Shape(x), fill |-> 0]

\* array.Value.wrap(1.0 if isinstance(target, array.Number) else numpy.ones(shape)).
OnesGradient(x) ==
    IF IsNumber(x) THEN [kind |-> "number", shape |-> <<>>, fill |-> 1]
    ELSE [kind |-> "numpy", shape |-> Shape(x), fill |-> 1]

\* current_gradient += array.Value.wrap(grad)
AddInPlace(current_gradient, grad) ==
    [current_gradient EXCEPT !.fill = @ + grad]

\* The sum of the contributions added so far to the gradient of key x.
Accum(T, x) == IF x \in DOMAIN T.accum THEN T.accum[x] ELSE 0
AddAccum(accum, x, d) ==
    IF x \in DOMAIN accum THEN [accum EXCEPT ![x] = @ + d] ELSE (x :> d) @@ accum

\* dict.get(key, [])
GetRecords(records, x) == IF x \in DOMAIN records THEN records[x] ELSE <<>>

\* The state of a freshly constructed Tape.  grads and array_grad_records are the
\* two dicts; the other fields are history a checker reads and the code never
\* does: hist (every record registered, in order), invoked (the record of every
\* grad_func call, in order), accum (per key, the sum of the contributions added
\* to its gradient), seeded (the Values set_gradient_target reached) and fatal
\* (the number of _logger.fatal calls).
NewTape ==
    [grads |-> <<>>, array_grad_records |-> <<>>,
     hist |-> <<>>, invoked |-> <<>>, accum |-> <<>>,
     seeded |-> {}, fatal |-> 0]

\* -------------------------------------------------- add_partial_derivative
RECURSIVE add_owner(_, _, _)
RECURSIVE add_owner_each(_, _, _, _)

\* A variant that puts the record at the head of the list.
AppendRecord_front(records, x, rec) ==
    IF x \in DOMAIN records
    THEN [records EXCEPT ![x] = <<rec>> \o @]
    ELSE (x :> <<rec>>) @@ records

AppendRecord(records, x, rec) ==
    IF x \in DOMAIN records
    THEN [records EXCEPT ![x] = Append(@, rec)]
    ELSE (x :> <<rec>>) @@ records

\* A variant that registers the record under None as well.
add_owner_none_kept(records, single_owner, rec) ==
    IF single_owner.t = "V" THEN AppendRecord(records, single_owner.v, rec)
    ELSE IF single_owner.t = "N" THEN AppendRecord(records, NoneKey, rec)
    ELSE add_owner_each(records, single_owner.s, rec, 1)

\* add_owner: a Value gets the record appended, None is skipped, a sequence is
\* walked in order.
add_owner(records, single_owner, rec) ==
    IF single_owner.t = "V" THEN AppendRecord(records, single_owner.v, rec)
    ELSE IF single_owner.t = "N" THEN records
    ELSE add_owner_each(records, single_owner.s, rec, 1)

add_owner_each(records, subs, rec, i) ==
    IF i > Len(subs) THEN records
    ELSE add_owner_each(add_owner(records, subs[i], rec), subs, rec, i + 1)

GradRecord(grad_func, result, owner) ==
    [grad_func |-> grad_func, result |-> result, owner |-> owner]

add_partial_derivative(T, grad_func, owner, result) ==
    LET rec == GradRecord(grad_func, result, owner)
    IN [T EXCEPT !.array_grad_records = add_owner(@, owner, rec),
                 !.hist = Append(@, rec)]

\* ------------------------------------------------------ set_gradient_target
RECURSIVE set_single_gradient_target(_, _)
RECURSIVE set_gradient_target_each(_, _, _)

SetGrad(grads, x, g) ==
    IF x \in DOMAIN grads THEN [grads EXCEPT ![x] = g] ELSE (x :> g) @@ grads

\* Returns [T, err]: a Value is set to ones; anything else is iterated, and
\* iterating None raises TypeError.
set_single_gradient_target(st, target) ==
    IF st.err # "ok" THEN st
    ELSE IF target.t = "V"
    THEN [st EXCEPT !.T.grads = SetGrad(@, target.v, OnesGradient(target.v)),
                    !.T.seeded = @ \cup {target.v}]
    ELSE IF target.t = "N" THEN [st EXCEPT !.err = "TypeError"]
    ELSE set_gradient_target_each(st, target.s, 1)

set_gradient_target_each(st, subs, i) ==
    IF i > Len(subs) \/ st.err # "ok" THEN st
    ELSE set_gradient_target_each(set_single_gradient_target(st, subs[i]), subs, i + 1)

set_gradient_target(T, target) ==
    set_single_gradient_target([T |-> T, err |-> "ok"], target)

\* ------------------------------------------------------------- _is_gradable
RECURSIVE check_grad_record_empty(_, _)
RECURSIVE check_grad_record_empty_each(_, _, _)
RECURSIVE is_gradable_from(_, _, _)

\* A variant that looks at a Value only and takes every sequence for empty.
check_grad_record_empty_flat(records, arr) ==
    IF arr.t = "V"
    THEN IF Len(GetRecords(records, arr.v)) # 0 THEN "F" ELSE "T"
    ELSE IF arr.t = "N" THEN "E"
    ELSE "T"

\* "T" / "F", or "E" when the walk iterates over None (TypeError).
check_grad_record_empty(records, arr) ==
    IF arr.t = "V"
    THEN IF Len(GetRecords(records, arr.v)) # 0 THEN "F" ELSE "T"
    ELSE IF arr.t = "N" THEN "E"
    ELSE check_grad_record_empty_each(records, arr.s, 1)

check_grad_record_empty_each(records, subs, i) ==
    IF i > Len(subs) THEN "T"
    ELSE LET r == check_grad_record_empty(records, subs[i])
         IN IF r # "T" THEN r
            ELSE check_grad_record_empty_each(records, subs, i + 1)

is_gradable_from(records, list, i) ==
    IF i > Len(list) THEN "T"
    ELSE LET r == check_grad_record_empty(records, list[i].result)
         IN IF r # "T" THEN r ELSE is_gradable_from(records, list, i + 1)

\* A variant without the readiness check.
is_gradable_always(T, current_array) == "T"

is_gradable(T, current_array) ==
    is_gradable_from(T.array_grad_records,
                     GetRecords(T.array_grad_records, current_array), 1)

\* ----------------------------------------------------- _get_cached_gradient
\* For one key: the entry, created as a zero of the key's kind when absent.
\* The None object has no has_type: AttributeError.
get_cached_gradient(st, x) ==
    IF st.err # "ok" THEN st
    ELSE IF x \in DOMAIN st.T.grads THEN st
    ELSE IF x = NoneKey THEN [st EXCEPT !.err = "AttributeError"]
    ELSE [st EXCEPT !.T.grads = (x :> ZeroGradient(x)) @@ @]

RECURSIVE result_gradient(_, _)
RECURSIVE result_gradient_each(_, _, _)

\* The gradient of a record's result as its grad_func reads it.  For a sequence
\* the source hands a generator over the elements' cached gradients; the
\* grad_func draws all of it, which creates the missing entries.  Returns
\* [st, g]: g is the sum of the fills the grad_func has read.
result_gradient(st, arr) ==
    IF st.err # "ok" THEN [st |-> st, g |-> 0]
    ELSE IF arr.t = "S" THEN result_gradient_each([st |-> st, g |-> 0], arr.s, 1)
    ELSE LET k == IF arr.t = "V" THEN arr.v ELSE NoneKey
             st1 == get_cached_gradient(st, k)
         IN IF st1.err # "ok" THEN [st |-> st1, g |-> 0]
            ELSE [st |-> st1, g |-> st1.T.grads[k].fill]

result_gradient_each(acc, subs, i) ==
    IF i > Len(subs) \/ acc.st.err # "ok" THEN acc
    ELSE LET r == result_gradient(acc.st, subs[i])
         IN result_gradient_each([st |-> r.st, g |-> acc.g + r.g], subs, i + 1)

\* ------------------------------------------------------------ the grad_func
RECURSIVE Scale(_, _)
\* A grad_func is a structure of local derivatives; called with gradient g it
\* returns the same structure with every derivative multiplied by g.
Scale(coefs, g) ==
    IF coefs.t = "V" THEN V(coefs.v * g)
    ELSE IF coefs.t = "N" THEN None
    ELSE L([i \in 1..Len(coefs.s) |-> Scale(coefs.s[i], g)])

CallGradFunc(grad_func, g) == Scale(grad_func, g)

\* ------------------------------------------------------- _cumulate_gradient
RECURSIVE add_gradient(_, _, _)
RECURSIVE add_gradient_zip(_, _, _, _)

Min(a, b) == IF a < b THEN a ELSE b

\* add_gradient: a Value gets its cached gradient (created when absent) plus the
\* wrapped contribution; None is skipped; for a sequence the lengths are
\* compared, a difference is logged with _logger.fatal, and zip pairs the
\* elements up to the shorter length.  len() of a contribution that is no
\* sequence raises TypeError.  (No grad_func of GradFuncs returns a sequence for
\* a Value owner.)
add_gradient(st, arr, grad) ==
    IF st.err # "ok" THEN st
    ELSE IF arr.t = "V"
    THEN LET st1 == get_cached_gradient(st, arr.v)
         IN [st1 EXCEPT !.T.grads[arr.v] = AddInPlace(@, grad.v),
                        !.T.accum = AddAccum(@, arr.v, grad.v)]
    ELSE IF arr.t = "N" THEN st
    ELSE IF grad.t # "S" THEN [st EXCEPT !.err = "TypeError"]
    ELSE LET st1 == IF Len(arr.s) # Len(grad.s)
                    THEN [st EXCEPT !.T.fatal = @ + 1]
                    ELSE st
         IN add_gradient_zip(st1, arr.s, grad.s, 1)

add_gradient_zip(st, arrs, grads, i) ==
    IF i > Min(Len(arrs), Len(grads)) \/ st.err # "ok" THEN st
    ELSE add_gradient_zip(add_gradient(st, arrs[i], grads[i]), arrs, grads, i + 1)

cumulate_gradient(st, arr, grad) == add_gradient(st, arr, grad)

\* ------------------------------------------------------------- get_gradient
RECURSIVE RemoveFirst(_, _)
\* list.remove(x): without the first element equal to x.
RemoveFirst(list, x) ==
    IF list = <<>> THEN <<>>
    ELSE IF Head(list) = x THEN Tail(list)
    ELSE <<Head(list)>> \o RemoveFirst(Tail(list), x)

Contains(list, x) == \E i \in 1..Len(list) : list[i] = x

RECURSIVE remove_grad_record(_, _, _)
RECURSIVE remove_grad_record_each(_, _, _, _)

\* A variant that removes the record for a Value owner only.
remove_grad_record_single(st, owner, grad_record) ==
    IF st.err # "ok" THEN st
    ELSE IF owner.t = "V" /\ owner.v \in DOMAIN st.T.array_grad_records
    THEN [st EXCEPT !.T.array_grad_records[owner.v] = RemoveFirst(@, grad_record)]
    ELSE st

\* remove_grad_record: list.remove on the list of every Value of owner; remove
\* raises ValueError when the record is not in the list.
remove_grad_record(st, owner, grad_record) ==
    IF st.err # "ok" THEN st
    ELSE IF owner.t = "V"
    THEN IF owner.v \notin DOMAIN st.T.array_grad_records
         THEN [st EXCEPT !.err = "KeyError"]
         ELSE IF ~Contains(st.T.array_grad_records[owner.v], grad_record)
         THEN [st EXCEPT !.err = "ValueError"]
         ELSE [st EXCEPT !.T.array_grad_records[owner.v] = RemoveFirst(@, grad_record)]
    ELSE IF owner.t = "N" THEN st
    ELSE remove_grad_record_each(st, owner.s, grad_record, 1)

remove_grad_record_each(st, subs, grad_record, i) ==
    IF i > Len(subs) \/ st.err # "ok" THEN st
    ELSE remove_grad_record_each(remove_grad_record(st, subs[i], grad_record),
                                 subs, grad_record, i + 1)

RECURSIVE apply_records(_, _, _)
\* The first for loop of the gradable branch: each record's grad_func is called
\* with the cached gradient of the record's result, and what it returns is
\* accumulated into the record's owner.
apply_records(st, grad_records, i) ==
    IF i > Len(grad_records) \/ st.err # "ok" THEN st
    ELSE LET rec == grad_records[i]
             rg == result_gradient(st, rec.result)
             called == [rg.st EXCEPT !.T.invoked = Append(@, rec)]
         IN IF rg.st.err # "ok"
            THEN (IF rec.result.t = "S" THEN called ELSE rg.st)
            ELSE apply_records(
                     cumulate_gradient(called, rec.owner,
                                       CallGradFunc(rec.grad_func, rg.g)),
                     grad_records, i + 1)

RECURSIVE remove_records(_, _, _)
\* A variant that leaves the applied records in place.
remove_records_skipped(st, copy, i) == st

\* The second for loop, over the copy grad_records[:].
remove_records(st, copy, i) ==
    IF i > Len(copy) \/ st.err # "ok" THEN st
    ELSE remove_records(remove_grad_record(st, copy[i].owner, copy[i]), copy, i + 1)

RECURSIVE get_cached_gradient_upto(_, _)
get_cached_gradient_upto(st, n) ==
    IF n = 0 THEN st ELSE get_cached_gradient_upto(get_cached_gradient(st, n), n - 1)

\* A variant that also makes a cached gradient for every Value there is.
process_gradable_eager(T, current_array) ==
    LET st1 == get_cached_gradient_upto([T |-> T, err |-> "ok"], NumValues)
        grad_records == GetRecords(T.array_grad_records, current_array)
        st2 == apply_records(st1, grad_records, 1)
    IN remove_records(st2, grad_records, 1)

\* The gradable branch for the popped Value.
process_gradable(T, current_array) ==
    LET st1 == get_cached_gradient([T |-> T, err |-> "ok"], current_array)
        grad_records == GetRecords(T.array_grad_records, current_array)
        st2 == apply_records(st1, grad_records, 1)
    IN remove_records(st2, grad_records, 1)

RECURSIVE push_grad_record(_, _)
RECURSIVE push_grad_record_each(_, _, _)
\* push_grad_record on [stack, err]: a Value is appended, anything else is
\* iterated (None: TypeError).
push_grad_record(ps, arr) ==
    IF ps.err # "ok" THEN ps
    ELSE IF arr.t = "V" THEN [ps EXCEPT !.stack = Append(@, arr)]
    ELSE IF arr.t = "N" THEN [ps EXCEPT !.err = "TypeError"]
    ELSE push_grad_record_each(ps, arr.s, 1)

push_grad_record_each(ps, subs, i) ==
    IF i > Len(subs) \/ ps.err # "ok" THEN ps
    ELSE push_grad_record_each(push_grad_record(ps, subs[i]), subs, i + 1)

RECURSIVE push_results(_, _, _)
push_results(ps, grad_records, i) ==
    IF i > Len(grad_records) \/ ps.err # "ok" THEN ps
    ELSE push_results(push_grad_record(ps, grad_records[i].result), grad_records, i + 1)

\* -------------------------------------------------------------------- state
VARIABLES
    tapes,        \* Tape objects by construction number: the fields of each
    timestamp,    \* Tape.timestamp
    global_tape,  \* Tape.global_tape: a construction number, or 0 for None
    scopes,       \* the open `with tape()` scopes, innermost last: each one's Tape
    pc,           \* "idle", "loop" inside the while loop of get_gradient, or
                  \* "failed" once a get_gradient has raised
    self,         \* the Tape of the running get_gradient
    origin,       \* its argument
    dfs_stack,    \* its work stack
    popped,       \* the Values it has popped as gradable
    outcome       \* the last call made: [op, arg, status, value]

vars == <<tapes, timestamp, global_tape, scopes, pc, self, origin, dfs_stack, popped,
          outcome>>

NoValue == [kind |-> "none", shape |-> <<>>, fill |-> 0]
Outcome(op, arg, status, value) ==
    [op |-> op, arg |-> arg, status |-> status, value |-> value]

\* ------------------------------------------------------------------- inputs
RECURSIVE LeafSet(_)
\* The Values of a structure.
LeafSet(arr) ==
    IF arr.t = "V" THEN {arr.v}
    ELSE IF arr.t = "N" THEN {}
    ELSE UNION {LeafSet(arr.s[i]) : i \in 1..Len(arr.s)}

\* The local derivative of the operation that made y from x.
LocalDerivative(x, y) == x + y

\* [1, 2, ..., n] as local derivatives.
Flat(n) == L([i \in 1..n |-> V(i)])

\* Operations of one input and one output, among the Values 1..n.
Linear(n) ==
    {[grad_func |-> V(LocalDerivative(x, y)), owner |-> V(x), result |-> V(y)] :
        x \in 1..n, y \in 1..n}
LinearInputs == Linear(NumValues)
\* Those that make a Value from the one before it.
ChainInputs == {inp \in LinearInputs : inp.result.v = inp.owner.v + 1}

\* Operations whose owner is a sequence: a pair with a contribution of the same
\* length, a longer and a shorter one; a pair with a trailing None; the same
\* Value twice; a nested pair.
SequenceInputs ==
    {[grad_func |-> Flat(n), owner |-> L(<<V(x), V(x + 1)>>), result |-> V(y)] :
        x \in 1..(NumValues - 1), n \in 1..3, y \in Values}
    \cup {[grad_func |-> Flat(3), owner |-> L(<<V(x), V(x + 1), None>>), result |-> V(y)] :
        x \in 1..(NumValues - 1), y \in Values}
    \cup {[grad_func |-> Flat(2), owner |-> L(<<V(x), V(x)>>), result |-> V(y)] :
        x \in Values, y \in Values}
    \cup {[grad_func |-> L(<<L(<<V(1)>>), V(2)>>), owner |-> L(<<L(<<V(x)>>), V(x + 1)>>),
           result |-> V(y)] : x \in 1..(NumValues - 1), y \in Values}

RecordInputs == LinearInputs \cup SequenceInputs

\* Operations whose result is a sequence: a pair of Values, a nested pair, a
\* Value with a None placeholder; and one whose result is None.
ResultShapes(y) ==
    {L(<<V(y), V(y + 1)>>), L(<<L(<<V(y)>>), V(y + 1)>>), L(<<V(y), None>>), None}

ResultInputs ==
    UNION {{[grad_func |-> V(LocalDerivative(x, y)), owner |-> V(x), result |-> r] :
               r \in ResultShapes(y)} : x \in Values, y \in Values}

Max(S) == CHOOSE m \in S : \A k \in S : k <= m

\* The newest Value a Tape has seen as a result.
LastResult(T) ==
    Max({0} \cup UNION {LeafSet(T.hist[i].result) : i \in 1..Len(T.hist)})

\* What a forward pass can record next: the result is newer than every input,
\* and no older than the results recorded before it.
Forward(T, inp) ==
    /\ \A x \in LeafSet(inp.owner) : \A y \in LeafSet(inp.result) : x < y
    /\ \A y \in LeafSet(inp.result) : LastResult(T) <= y

Targets == {V(y) : y \in Values}

Origins == {V(x) : x \in Values} \cup {None, L(<<V(1), V(2)>>)}

\* -------------------------------------------------------------------- Init
\* One Tape constructed directly, no recording scope open.
Init ==
    /\ tapes = (1 :> NewTape)
    /\ timestamp = 1
    /\ global_tape = 0
    /\ scopes = <<>>
    /\ pc = "idle"
    /\ self = 1
    /\ origin = None
    /\ dfs_stack = <<>>
    /\ popped = {}
    /\ outcome = Outcome("init", None, "ok", NoValue)

\* ----------------------------------------------------------------- actions
\* A failed get_gradient leaves the Tape partially consumed; its callers do not
\* use it again, so nothing is enabled once pc = "failed".
AddPartialDerivative(t, Inputs, max) ==
    /\ pc = "idle"
    /\ t \in DOMAIN tapes
    /\ Len(tapes[t].hist) < max
    /\ \E inp \in Inputs :
          /\ Forward(tapes[t], inp)
          /\ tapes' = [tapes EXCEPT ![t] =
                 add_partial_derivative(@, inp.grad_func, inp.owner, inp.result)]
    /\ outcome' = Outcome("add_partial_derivative", None, "ok", NoValue)
    /\ UNCHANGED <<timestamp, global_tape, scopes, pc, self, origin, dfs_stack, popped>>

SetGradientTarget(t, Tgts) ==
    /\ pc = "idle"
    /\ t \in DOMAIN tapes
    /\ \E target \in Tgts :
          LET r == set_gradient_target(tapes[t], target)
          IN /\ tapes' = [tapes EXCEPT ![t] = r.T]
             /\ outcome' = Outcome("set_gradient_target", target, r.err, NoValue)
    /\ UNCHANGED <<timestamp, global_tape, scopes, pc, self, origin, dfs_stack, popped>>

\* dfs_stack = [origin]
GetGradientCall(t, Origs) ==
    /\ pc = "idle"
    /\ t \in DOMAIN tapes
    /\ \E o \in Origs :
          /\ origin' = o
          /\ dfs_stack' = <<o>>
          /\ outcome' = Outcome("get_gradient", o, "running", NoValue)
    /\ pc' = "loop"
    /\ self' = t
    /\ popped' = {}
    /\ UNCHANGED <<tapes, timestamp, global_tape, scopes>>

\* A variant without the assertion: what is no Value is dropped from the stack.
loop_body_unasserted(T, stack) ==
    LET current_array == stack[Len(stack)]
        rest == SubSeq(stack, 1, Len(stack) - 1)
    IN IF current_array.t # "V"
       THEN [T |-> T, stack |-> rest, pop |-> {}, err |-> "ok"]
       ELSE LET gradable == is_gradable(T, current_array.v)
            IN IF gradable = "E"
               THEN [T |-> T, stack |-> stack, pop |-> {}, err |-> "TypeError"]
               ELSE IF gradable = "T"
               THEN LET st == process_gradable(T, current_array.v)
                    IN [T |-> st.T, stack |-> rest, pop |-> {current_array.v},
                        err |-> st.err]
               ELSE LET ps == push_results([stack |-> stack, err |-> "ok"],
                                           T.array_grad_records[current_array.v], 1)
                    IN [T |-> T, stack |-> ps.stack, pop |-> {}, err |-> ps.err]

\* What one pass through the body of the while loop leaves: [T, stack, pop,
\* err], pop being the Values popped as gradable.
loop_body(T, stack) ==
    LET current_array == stack[Len(stack)]
        rest == SubSeq(stack, 1, Len(stack) - 1)
    IN IF current_array.t # "V"
       THEN [T |-> T, stack |-> stack, pop |-> {}, err |-> "AssertionError"]
       ELSE LET gradable == is_gradable(T, current_array.v)
            IN IF gradable = "E"
               THEN [T |-> T, stack |-> stack, pop |-> {}, err |-> "TypeError"]
               ELSE IF gradable = "T"
               THEN LET st == process_gradable(T, current_array.v)
                    IN [T |-> st.T, stack |-> rest, pop |-> {current_array.v},
                        err |-> st.err]
               ELSE LET ps == push_results([stack |-> stack, err |-> "ok"],
                                           T.array_grad_records[current_array.v], 1)
                    IN [T |-> T, stack |-> ps.stack, pop |-> {}, err |-> ps.err]

RECURSIVE run_loop(_, _)
\* The while loop run to its end: [T, err].
run_loop(T, stack) ==
    IF stack = <<>> THEN [T |-> T, err |-> "ok"]
    ELSE LET b == loop_body(T, stack)
         IN IF b.err # "ok" THEN [T |-> b.T, err |-> b.err]
            ELSE run_loop(b.T, b.stack)

\* A whole call of get_gradient: [T, err, value].
get_gradient(T, o) ==
    LET r == run_loop(T, <<o>>)
        st == get_cached_gradient(r, o.v)
    IN [T |-> st.T, err |-> st.err,
        value |-> IF st.err = "ok" THEN st.T.grads[o.v] ELSE NoValue]

\* One pass through the while loop; an exception ends the call.
GetGradientStep ==
    /\ pc = "loop"
    /\ dfs_stack # <<>>
    /\ LET b == loop_body(tapes[self], dfs_stack)
       IN /\ tapes' = [tapes EXCEPT ![self] = b.T]
          /\ popped' = popped \cup b.pop
          /\ IF b.err = "ok"
             THEN /\ dfs_stack' = b.stack
                  /\ UNCHANGED <<pc, outcome>>
             ELSE /\ dfs_stack' = <<>>
                  /\ pc' = "failed"
                  /\ outcome' = Outcome("get_gradient", origin, b.err, NoValue)
    /\ UNCHANGED <<timestamp, global_tape, scopes, self, origin>>

\* return self._get_cached_gradient(origin)
GetGradientReturn ==
    /\ pc = "loop"
    /\ dfs_stack = <<>>
    /\ LET st == get_cached_gradient([T |-> tapes[self], err |-> "ok"], origin.v)
       IN /\ tapes' = [tapes EXCEPT ![self] = st.T]
          /\ outcome' = Outcome("get_gradient", origin, st.err,
                                IF st.err = "ok" THEN st.T.grads[origin.v] ELSE NoValue)
    /\ pc' = "idle"
    /\ UNCHANGED <<timestamp, global_tape, scopes, self, origin, dfs_stack, popped>>

Next ==
    \/ AddPartialDerivative(1, RecordInputs, MaxRecords)
    \/ SetGradientTarget(1, Targets)
    \/ GetGradientCall(1, Origins)
    \/ GetGradientStep
    \/ GetGradientReturn

Spec == Init /\ [][Next]_vars

\* A call of get_gradient runs on: while it is inside the loop the interpreter
\* takes the next pass, or the return statement after the last one.  (Inside
\* the loop one of the two is always enabled and nothing else is, so this is
\* weak fairness of the two, with the enabling condition written out.)
RunsOn == []<>(pc # "loop") \/ []<><<pc = "loop">>_vars

SpecFair == Spec /\ RunsOn

\* ------------------------------------------- a forward pass, then a backward pass
\* The documented use of a Tape on operations of one input and one output: the
\* forward pass records, set_gradient_target seeds one target, and get_gradient
\* is then called on Values.  Records of one result are taken in the order of
\* their owners (the order among different owners' lists changes no list).
NodeOrigins == {V(x) : x \in 1..NumNodes}
NodeTargets == {V(y) : y \in 1..NumNodes}

InOrder(T, inp) ==
    \A i \in 1..Len(T.hist) :
        T.hist[i].result = inp.result => T.hist[i].owner.v <= inp.owner.v

LinearRecord ==
    /\ tapes[1].grads = <<>>
    /\ AddPartialDerivative(1, {inp \in Linear(NumNodes) : InOrder(tapes[1], inp)}, MaxEdges)

LinearSeed ==
    /\ tapes[1].grads = <<>>
    /\ SetGradientTarget(1, NodeTargets)

LinearCall ==
    /\ tapes[1].seeded # {}
    /\ GetGradientCall(1, NodeOrigins)

NextLinear ==
    \/ LinearRecord
    \/ LinearSeed
    \/ LinearCall
    \/ GetGradientStep
    \/ GetGradientReturn

SpecLinear == Init /\ [][NextLinear]_vars

\* ----------------------------------------------- operations of several results
\* The Tape used as in Spec, the forward pass recording operations with
\* sequence owners and with sequence results.
OrderedInputs == RecordInputs \cup {inp \in ResultInputs : \A y \in LeafSet(inp.result) : y \in Values}

NextResults ==
    \/ AddPartialDerivative(1, OrderedInputs, MaxRecords)
    \/ SetGradientTarget(1, Targets)
    \/ GetGradientCall(1, Targets)
    \/ GetGradientStep
    \/ GetGradientReturn

SpecResults == Init /\ [][NextResults]_vars

\* ------------------------------------------------------- the recording scope
\* What global_tape() returned: a Tape by construction number, 0 for None.
TapeRef(t) == [kind |-> "tape", shape |-> <<>>, fill |-> t]

\* A variant that leaves an active Tape in place.
TapeEnter_keeps_active ==
    /\ pc = "idle"
    /\ timestamp < MaxTapes
    /\ timestamp' = timestamp + 1
    /\ tapes' = (timestamp + 1 :> NewTape) @@ tapes
    /\ global_tape' = IF global_tape = 0 THEN timestamp + 1 ELSE global_tape
    /\ scopes' = Append(scopes, timestamp + 1)
    /\ outcome' = Outcome("tape_enter", None, "ok", NoValue)
    /\ UNCHANGED <<pc, self, origin, dfs_stack, popped>>

\* A variant that restores the Tape of the enclosing scope.
TapeExit_restores ==
    /\ pc = "idle"
    /\ scopes # <<>>
    /\ global_tape' = IF Len(scopes) > 1 THEN scopes[Len(scopes) - 1] ELSE 0
    /\ scopes' = SubSeq(scopes, 1, Len(scopes) - 1)
    /\ outcome' = Outcome("tape_exit", None, "ok", NoValue)
    /\ UNCHANGED <<tapes, timestamp, pc, self, origin, dfs_stack, popped>>

\* tape(): Tape.global_tape = Tape(), up to the yield.
TapeEnter ==
    /\ pc = "idle"
    /\ timestamp < MaxTapes
    /\ timestamp' = timestamp + 1
    /\ tapes' = (timestamp + 1 :> NewTape) @@ tapes
    /\ global_tape' = timestamp + 1
    /\ scopes' = Append(scopes, timestamp + 1)
    /\ outcome' = Outcome("tape_enter", None, "ok", NoValue)
    /\ UNCHANGED <<pc, self, origin, dfs_stack, popped>>

\* The body of the innermost scope ends normally: the generator resumes after
\* the yield.
TapeExit ==
    /\ pc = "idle"
    /\ scopes # <<>>
    /\ global_tape' = 0
    /\ scopes' = SubSeq(scopes, 1, Len(scopes) - 1)
    /\ outcome' = Outcome("tape_exit", None, "ok", NoValue)
    /\ UNCHANGED <<tapes, timestamp, pc, self, origin, dfs_stack, popped>>

\* The body of the innermost scope raises: the exception is thrown into the
\* generator at the yield, which has no try/finally around it, so the statement
\* after the yield does not run and the exception leaves the scope.
TapeRaise ==
    /\ pc = "idle"
    /\ scopes # <<>>
    /\ scopes' = SubSeq(scopes, 1, Len(scopes) - 1)
    /\ outcome' = Outcome("tape_exit", None, "Exception", NoValue)
    /\ UNCHANGED <<tapes, timestamp, global_tape, pc, self, origin, dfs_stack, popped>>

\* A primitive of the forward pass: it records on global_tape() unless that is
\* None.
RecordGlobal ==
    /\ global_tape # 0
    /\ AddPartialDerivative(global_tape, ChainInputs, MaxRecords)

\* global_tape(): returns Tape.global_tape.
GlobalTape ==
    /\ pc = "idle"
    /\ outcome' = Outcome("global_tape", None, "ok", TapeRef(global_tape))
    /\ UNCHANGED <<tapes, timestamp, global_tape, scopes, pc, self, origin, dfs_stack,
                   popped>>

NextScope ==
    \/ TapeEnter
    \/ TapeExit
    \/ TapeRaise
    \/ RecordGlobal
    \/ GlobalTape

SpecScope == Init /\ [][NextScope]_vars

\* ------------------------------------------------------------------ claims
Returned == pc = "idle" /\ outcome.op = "get_gradient" /\ outcome.status = "ok"

Count(list, x) == Cardinality({i \in 1..Len(list) : list[i] = x})

RECURSIVE PathSum(_, _)
RECURSIVE PathSumFrom(_, _, _)
\* Over the operations a Tape has recorded: the sum, over every path of records
\* from x to a seeded Value, of the product of the local derivatives on it.
PathSum(T, x) == (IF x \in T.seeded THEN 1 ELSE 0) + PathSumFrom(T, x, 1)

PathSumFrom(T, x, i) ==
    IF i > Len(T.hist) THEN 0
    ELSE (IF T.hist[i].owner = V(x)
          THEN T.hist[i].grad_func.v * PathSum(T, T.hist[i].result.v)
          ELSE 0) + PathSumFrom(T, x, i + 1)

\* C1: on a recorded acyclic graph of one-input, one-output operations with
\* linear grad_funcs, get_gradient(x) after set_gradient_target(y) does not fail
\* and returns the sum over all paths from x to y of the product of the local
\* derivatives along the path.
C1_PathSum ==
    /\ pc # "failed"
    /\ Returned => outcome.value.fill = PathSum(tapes[1], origin.v)

\* The diamond a = f1(x), b = f2(x), y = a + b: x = 1, a = 2, b = 3, y = 4.
C1_Diamond ==
    /\ Returned
    /\ origin = V(1)
    /\ tapes[1].seeded = {4}
    /\ {tapes[1].hist[i] : i \in 1..Len(tapes[1].hist)} =
          {inp \in Linear(4) : <<inp.owner.v, inp.result.v>> \in
                                  {<<1, 2>>, <<1, 3>>, <<2, 4>>, <<3, 4>>}}
    /\ Len(tapes[1].hist) = 4
    /\ outcome.value.fill =
          LocalDerivative(1, 2) * LocalDerivative(2, 4)
          + LocalDerivative(1, 3) * LocalDerivative(3, 4)

\* C2: the grad_func of a GradRecord is applied at most once over the life of a
\* Tape: no record has been applied more often than it has been registered.
C2_AppliedAtMostOnce ==
    \A t \in DOMAIN tapes :
        \A i \in 1..Len(tapes[t].invoked) :
            Count(tapes[t].invoked, tapes[t].invoked[i])
                <= Count(tapes[t].hist, tapes[t].invoked[i])

\* C3: a pass of get_gradient that meets a sequence owner whose length differs
\* from that of the contribution ends the call with an error and adds nothing
\* of that contribution to any cached gradient.
C3_MismatchAborts ==
    [][\A t \in DOMAIN tapes :
          (/\ tapes'[t].fatal # tapes[t].fatal
           /\ Len(tapes'[t].invoked) = Len(tapes[t].invoked) + 1)
          => /\ pc' = "failed"
             /\ tapes'[t].accum = tapes[t].accum]_vars

\* C4: while the one scope opened by tape() runs, global_tape() is the Tape the
\* scope created; once every scope is left, normally or by an exception,
\* global_tape() is None.
C4_ScopeClears ==
    /\ (Len(scopes) = 1 /\ timestamp = 2) => global_tape = scopes[1]
    /\ scopes = <<>> => global_tape = 0

\* The cached gradient's fill, 0 while there is no entry.
Fill(T, x) == IF x \in DOMAIN T.grads THEN T.grads[x].fill ELSE 0

\* Between two states: the entry of v is the old entry plus the contributions
\* added to v in the step.
Accumulated(t, v) ==
    /\ v \in DOMAIN tapes'[t].grads
    /\ tapes'[t].grads[v].kind = tapes[t].grads[v].kind
    /\ tapes'[t].grads[v].shape = tapes[t].grads[v].shape
    /\ tapes'[t].grads[v].fill =
          tapes[t].grads[v].fill + (Accum(tapes'[t], v) - Accum(tapes[t], v))

\* C5 as stated: every change of an existing grads entry, by any operation, is
\* the old entry plus a contribution; only an entry that is still zero may be
\* given another value, which discards nothing.
C5_NeverOverwritten ==
    [][\A t \in DOMAIN tapes : \A v \in DOMAIN tapes[t].grads :
          \/ Accumulated(t, v)
          \/ tapes[t].grads[v].fill = 0]_vars

\* What the code does keep (C5): every change of an existing grads entry is the
\* old entry plus the contributions of the step, except that
\* set_gradient_target sets the entry of every Value of its target to ones.
C5_OnlySeedingOverwrites ==
    [][\A t \in DOMAIN tapes : \A v \in DOMAIN tapes[t].grads :
          \/ Accumulated(t, v)
          \/ /\ outcome'.op = "set_gradient_target"
             /\ v \in LeafSet(outcome'.arg)
             /\ tapes'[t].grads[v] = OnesGradient(v)]_vars

\* set_gradient_target has just replaced a gradient that held contributions.
C5_SeedDiscards ==
    /\ outcome.op = "set_gradient_target"
    /\ \E v \in LeafSet(outcome.arg) :
          /\ Accum(tapes[1], v) > 0
          /\ tapes[1].grads[v] = OnesGradient(v)

\* C6: right after get_gradient(v) has returned, another get_gradient(v) returns
\* the same gradient, calls no grad_func and leaves grads and the record lists
\* as they are.
C6_SecondCallIdempotent ==
    Returned =>
        LET r == get_gradient(tapes[self], origin)
        IN /\ r.err = "ok"
           /\ r.value = outcome.value
           /\ r.T = tapes[self]

\* The first call applied a record of its origin and returned a gradient that
\* is not zero.
C6_AfterWork ==
    /\ Returned
    /\ outcome.value.fill > 0
    /\ \E i \in 1..Len(tapes[self].invoked) :
          origin.v \in LeafSet(tapes[self].invoked[i].owner)

\* C7: when get_gradient(origin) returns, the record list of origin and of
\* every Value the traversal popped as gradable is empty.
C7_RecordsEmptyAtReturn ==
    Returned =>
        \A v \in popped \cup {origin.v} :
            GetRecords(tapes[self].array_grad_records, v) = <<>>

\* A traversal that popped three Values and applied a record of two of them.
C7_TraversalPopped ==
    /\ Returned
    /\ Cardinality(popped) >= 3
    /\ \E i, j \in 1..Len(tapes[self].invoked) :
          /\ tapes[self].invoked[i].owner # tapes[self].invoked[j].owner
          /\ LeafSet(tapes[self].invoked[i].owner) \subseteq popped
          /\ LeafSet(tapes[self].invoked[j].owner) \subseteq popped

RECURSIVE Reach(_, _)
\* The Values a Tape's recorded operations lead to from x, x included.
Reach(T, x) ==
    {x} \cup UNION {Reach(T, y) :
                      y \in UNION {LeafSet(T.hist[i].result) :
                                     i \in {k \in 1..Len(T.hist) :
                                              x \in LeafSet(T.hist[k].owner)}}}

\* C8: get_gradient of a Value from which the recorded operations lead to no
\* seeded target does not fail, and returns a zero gradient of the Value's
\* shape, which grads holds afterwards.
C8_ZeroSeeding ==
    (/\ outcome.op = "get_gradient"
     /\ pc # "loop"
     /\ origin.t = "V"
     /\ Reach(tapes[self], origin.v) \cap tapes[self].seeded = {})
    => /\ Returned
       /\ outcome.value = ZeroGradient(origin.v)
       /\ origin.v \in DOMAIN tapes[self].grads
       /\ tapes[self].grads[origin.v] = outcome.value

\* A record with owner [x1, x2, None] and a grad_func of three contributions.
WithNoneSlot(rec) ==
    /\ rec.owner.t = "S"
    /\ Len(rec.owner.s) = 3
    /\ rec.owner.s[1].t = "V"
    /\ rec.owner.s[2].t = "V"
    /\ rec.owner.s[3].t = "N"
    /\ rec.owner.s[1].v # rec.owner.s[2].v
    /\ rec.grad_func.t = "S"
    /\ Len(rec.grad_func.s) = 3

\* C9: a record with owner [x1, x2, None] and a three-element contribution is
\* registered under x1 and x2 only; the pass of get_gradient that applies it
\* does not fail, adds the first element to the gradient of x1 and the second
\* to that of x2, removes the record from both lists, and makes no grads or
\* grad_records entry for None.
C9_NoneSlotSkipped ==
    [][\A t \in DOMAIN tapes :
          LET T == tapes[t]
              T2 == tapes'[t]
              reg == T2.hist[Len(T2.hist)]
              app == T2.invoked[Len(T2.invoked)]
          IN /\ (Len(T2.hist) = Len(T.hist) + 1 /\ WithNoneSlot(reg)) =>
                   LET own == {reg.owner.s[1].v, reg.owner.s[2].v}
                   IN /\ DOMAIN T2.array_grad_records =
                            DOMAIN T.array_grad_records \cup own
                      /\ \A v \in DOMAIN T2.array_grad_records :
                            T2.array_grad_records[v] =
                               IF v \in own
                               THEN Append(GetRecords(T.array_grad_records, v), reg)
                               ELSE T.array_grad_records[v]
             /\ (Len(T2.invoked) = Len(T.invoked) + 1 /\ WithNoneSlot(app)) =>
                   LET x1 == app.owner.s[1].v
                       x2 == app.owner.s[2].v
                       g == result_gradient([T |-> T2, err |-> "ok"], app.result).g
                   IN /\ pc' = "loop"
                      /\ Fill(T2, x1) = Fill(T, x1) + app.grad_func.s[1].v * g
                      /\ Fill(T2, x2) = Fill(T, x2) + app.grad_func.s[2].v * g
                      /\ x1 \in DOMAIN T2.grads
                      /\ x2 \in DOMAIN T2.grads
                      /\ ~Contains(T2.array_grad_records[x1], app)
                      /\ ~Contains(T2.array_grad_records[x2], app)
                      /\ NoneKey \notin DOMAIN T2.grads
                      /\ NoneKey \notin DOMAIN T2.array_grad_records]_vars

\* get_gradient(x1) has returned after applying such a record whose result was
\* seeded: the two gradients hold the first and the second contribution.
C9_Propagated ==
    /\ Returned
    /\ \E i \in 1..Len(tapes[1].invoked) :
          LET rec == tapes[1].invoked[i]
          IN /\ WithNoneSlot(rec)
             /\ origin = rec.owner.s[1]
             /\ LeafSet(rec.result) \subseteq tapes[1].seeded
             /\ Len(tapes[1].invoked) = 1
             /\ Fill(tapes[1], rec.owner.s[1].v) = rec.grad_func.s[1].v
             /\ Fill(tapes[1], rec.owner.s[2].v) = rec.grad_func.s[2].v

\* C10: get_gradient(origin) with an origin that is no single Value fails in its
\* first pass, on the assertion, with the Tape as it was at the call: no
\* grad_func called, grads and the record lists unchanged.
C10_NonValueOriginFails ==
    [][(pc = "loop" /\ origin.t # "V") =>
          /\ pc' = "failed"
          /\ outcome'.status = "AssertionError"
          /\ tapes' = tapes]_vars

\* A failed call on None or on a sequence, on a Tape that holds records.
C10_Failed ==
    /\ pc = "failed"
    /\ origin.t # "V"
    /\ outcome.status = "AssertionError"
    /\ \E v \in DOMAIN tapes[self].array_grad_records :
          tapes[self].array_grad_records[v] # <<>>

\* C11: entering a scope while another is open makes the new scope's Tape the
\* active one; while the open scopes stay as they are, global_tape() keeps
\* returning it; the one reference names one Tape or none; and the Tapes of the
\* enclosing scopes keep their records and get no further one.
C11_SecondScopeReplaces ==
    [][/\ global_tape' \in {0} \cup DOMAIN tapes'
       /\ (scopes # <<>> /\ Len(scopes') = Len(scopes) + 1) =>
             /\ global_tape' = scopes'[Len(scopes')]
             /\ global_tape' \notin DOMAIN tapes
             /\ \A t \in DOMAIN tapes : tapes'[t] = tapes[t]
       /\ (Len(scopes) >= 2 /\ scopes' = scopes) =>
             /\ global_tape' = global_tape
             /\ \A i \in 1..(Len(scopes) - 1) : tapes'[scopes[i]] = tapes[scopes[i]]
             /\ \A t \in DOMAIN tapes : t # global_tape => tapes'[t] = tapes[t]
       /\ outcome'.op = "global_tape" => outcome'.value = TapeRef(global_tape)]_vars

\* Two scopes open, both Tapes hold records, the second's recorded after it was
\* entered, and global_tape() has just returned the second scope's Tape.
C11_SecondActive ==
    /\ scopes = <<2, 3>>
    /\ tapes[2].hist # <<>>
    /\ tapes[3].hist # <<>>
    /\ outcome.op = "global_tape"
    /\ outcome.value = TapeRef(3)

C12_InvokedWhenResultsDone ==
    [][\A t \in DOMAIN tapes :
          \A i \in (Len(tapes[t].invoked) + 1)..Len(tapes'[t].invoked) :
              \A y \in LeafSet(tapes'[t].invoked[i].result) :
                  GetRecords(tapes[t].array_grad_records, y) = <<>>]_vars

\* A returned call that applied a record with a sequence result after the
\* record of a consumer of one of that result's Values.
C12_ConsumerFirst ==
    /\ Returned
    /\ Len(tapes[1].invoked) = 2
    /\ tapes[1].invoked[2].result.t = "S"
    /\ LeafSet(tapes[1].invoked[1].owner) \subseteq LeafSet(tapes[1].invoked[2].result)
    /\ tapes[1].invoked[2].owner = origin

RECURSIVE HasNone(_)
\* The structure holds a None placeholder.
HasNone(arr) ==
    \/ arr.t = "N"
    \/ arr.t = "S" /\ \E i \in 1..Len(arr.s) : HasNone(arr.s[i])

\* C17: a pass of get_gradient over a Value that holds a record whose result
\* has a None position does not fail on that position: neither by iterating
\* None (TypeError) nor by looking None up as an array (AttributeError).
C17_NoneInResultSkipped ==
    [][(/\ pc = "loop"
        /\ dfs_stack # <<>>
        /\ dfs_stack[Len(dfs_stack)].t = "V"
        /\ \E i \in 1..Len(GetRecords(tapes[self].array_grad_records,
                                       dfs_stack[Len(dfs_stack)].v)) :
              HasNone(tapes[self].array_grad_records[dfs_stack[Len(dfs_stack)].v][i].result))
       => outcome'.status \notin {"TypeError", "AttributeError"}]_vars

\* C13: a get_gradient(origin) on a Value origin ends in one way only, by
\* returning the cached gradient of origin with the work stack empty: at any
\* moment the call is either still in its loop or has returned so.
C13_Terminates ==
    (outcome.op = "get_gradient" /\ origin.t = "V") =>
        \/ pc = "loop"
        \/ /\ Returned
           /\ dfs_stack = <<>>
           /\ outcome.value = tapes[self].grads[origin.v]

\* The backend type tag of a Value.
Backend(x) == IF IsNumber(x) THEN "number" ELSE IF IsMxnet(x) THEN "mxnet" ELSE "numpy"

\* C14: after set_gradient_target(target) every Value of target has a cached
\* gradient of ones: the scalar 1.0 for a Number, otherwise an all-ones tensor
\* of the Value's shape and backend.
C14_OnesOfLeafBackend ==
    (outcome.op = "set_gradient_target" /\ outcome.status = "ok") =>
        \A v \in LeafSet(outcome.arg) :
            /\ v \in DOMAIN tapes[1].grads
            /\ tapes[1].grads[v] =
                  [kind |-> Backend(v), shape |-> Shape(v), fill |-> 1]

\* C15: in every state of a Tape, get-or-init of the cached gradient of a Value
\* x leaves the Tape as it is when grads has an entry for x; otherwise it adds
\* for x a zero (scalar zero for a Number, else a zero tensor of x's shape and
\* backend) and changes no other grads entry and no record list.  The entry is
\* what the call returns.
C15_GetOrInit ==
    \A x \in Values :
        LET T == tapes[1]
            st == get_cached_gradient([T |-> T, err |-> "ok"], x)
        IN /\ st.err = "ok"
           /\ IF x \in DOMAIN T.grads
              THEN st.T = T
              ELSE /\ DOMAIN st.T.grads = DOMAIN T.grads \cup {x}
                   /\ st.T.grads[x] = [kind |-> Backend(x), shape |-> Shape(x), fill |-> 0]
                   /\ \A v \in DOMAIN T.grads : st.T.grads[v] = T.grads[v]
                   /\ st.T.array_grad_records = T.array_grad_records
                   /\ st.T.accum = T.accum

\* get_gradient has returned the zero it made for an mxnet Value, on a Tape that
\* holds an accumulated gradient for another Value and still has records.
C15_ZeroMade ==
    /\ Returned
    /\ IsMxnet(origin.v)
    /\ outcome.value = [kind |-> "mxnet", shape |-> Shape(origin.v), fill |-> 0]
    /\ \E v \in DOMAIN tapes[1].grads : tapes[1].grads[v].fill > 1
    /\ \E v \in DOMAIN tapes[1].array_grad_records : tapes[1].array_grad_records[v] # <<>>

RECURSIVE Occurrences(_, _)
\* How many leaves of the structure are the Value v.
Occurrences(arr, v) ==
    IF arr.t = "V" THEN (IF arr.v = v THEN 1 ELSE 0)
    ELSE IF arr.t = "N" THEN 0
    ELSE LET n == Len(arr.s)
         IN IF n = 0 THEN 0
            ELSE Occurrences(arr.s[n], v) + Occurrences(L(SubSeq(arr.s, 1, n - 1)), v)

Copies(rec, n) == [i \in 1..n |-> rec]

\* C16: add_partial_derivative(grad_func, owner, result) appends
\* GradRecord(grad_func, result, owner) at the end of the record list of the
\* Value of every Value leaf of owner, one copy for each leaf (a list is made
\* for a Value that had none), and changes nothing else: grads is unchanged,
\* the lists of the Values outside owner are unchanged, and the records already
\* in the affected lists stay, in their order, in front of the new one.
C16_AppendsAndNothingElse ==
    [][\A t \in DOMAIN tapes :
          Len(tapes'[t].hist) = Len(tapes[t].hist) + 1 =>
             LET T == tapes[t]
                 T2 == tapes'[t]
                 rec == T2.hist[Len(T2.hist)]
             IN /\ T2.grads = T.grads
                /\ DOMAIN T2.array_grad_records =
                      DOMAIN T.array_grad_records \cup LeafSet(rec.owner)
                /\ \A v \in DOMAIN T2.array_grad_records :
                      T2.array_grad_records[v] =
                         GetRecords(T.array_grad_records, v)
                            \o Copies(rec, Occurrences(rec.owner, v))
                /\ T2.invoked = T.invoked
                /\ T2.accum = T.accum
                /\ \A u \in DOMAIN tapes : u # t => tapes'[u] = tapes[u]]_vars

\* An operation with a sequence owner has just been recorded behind another
\* record in the list of one of its owner's Values, on a Tape that has
\* gradients.
C16_AppendedBehind ==
    /\ outcome.op = "add_partial_derivative"
    /\ tapes[1].grads # <<>>
    /\ Len(tapes[1].hist) = 2
    /\ tapes[1].hist[2].owner.t = "S"
    /\ tapes[1].hist[1] # tapes[1].hist[2]
    /\ \E v \in LeafSet(tapes[1].hist[2].owner) :
          tapes[1].array_grad_records[v] = <<tapes[1].hist[1], tapes[1].hist[2]>>

RECURSIVE ReachNow(_, _)
\* The Values that the records now in the lists lead to from x by their
\* results, x included.
ReachNow(records, x) ==
    {x} \cup UNION {ReachNow(records, y) :
                      y \in UNION {LeafSet(GetRecords(records, x)[i].result) :
                                     i \in 1..Len(GetRecords(records, x))}}

\* The records now in the lists.
Listed(records) ==
    UNION {{records[v][i] : i \in 1..Len(records[v])} : v \in DOMAIN records}

\* The list without the records of the set.
Without(list, recs) == SelectSeq(list, LAMBDA rec : rec \notin recs)

\* C19: from every state in which no call is running, get_gradient(o) on a
\* Value o, whether it returns or fails, removes only records whose owner
\* holds a Value reachable from o, and makes or changes grads entries only for
\* the reachable Values and the Values of those records' owners; every other
\* record list and grads entry is as before.
C19_DemandDriven ==
    pc = "idle" =>
      \A o \in Values :
        LET T == tapes[1]
            r == get_gradient(T, V(o))
            R == ReachNow(T.array_grad_records, o)
            touched == {rec \in Listed(T.array_grad_records) :
                          LeafSet(rec.owner) \cap R # {}}
            near == R \cup UNION {LeafSet(rec.owner) : rec \in touched}
        IN /\ DOMAIN r.T.array_grad_records = DOMAIN T.array_grad_records
           /\ \A v \in DOMAIN T.array_grad_records :
                 /\ Without(r.T.array_grad_records[v], touched)
                       = Without(T.array_grad_records[v], touched)
                 /\ \A rec \in touched :
                       Count(r.T.array_grad_records[v], rec)
                          <= Count(T.array_grad_records[v], rec)
                 /\ v \notin near => r.T.array_grad_records[v] = T.array_grad_records[v]
           /\ DOMAIN T.grads \subseteq DOMAIN r.T.grads
           /\ \A v \in DOMAIN r.T.grads :
                 v \notin near => v \in DOMAIN T.grads /\ r.T.grads[v] = T.grads[v]

\* get_gradient(origin) has returned after calling a grad_func, and a Value that
\* the records do not lead to from origin still has its record and no grads
\* entry.
C19_PartOfTheGraph ==
    /\ Returned
    /\ tapes[1].invoked # <<>>
    /\ outcome.value.fill > 0
    /\ \E v \in DOMAIN tapes[1].array_grad_records :
          /\ tapes[1].array_grad_records[v] # <<>>
          /\ v \notin DOMAIN tapes[1].grads
          /\ v \notin Reach(tapes[1], origin.v)

\* The records registered so far name no Value twice in an owner and have no
\* None in a result.
PlainGraph(T) ==
    \A i \in 1..Len(T.hist) :
        /\ ~HasNone(T.hist[i].result)
        /\ \A v \in LeafSet(T.hist[i].owner) : Occurrences(T.hist[i].owner, v) = 1

\* What the loop does achieve (C13): on such a graph every call on a Value
\* origin, running on, returns.
C13_PlainGraphsReturn ==
    (pc = "loop" /\ origin.t = "V" /\ PlainGraph(tapes[self])) ~> Returned

====
